---- MODULE Spec2Model ----
(***************************************************************************)
(* Note retrieval and engagement subsystem of the note-sharing backend     *)
(* (notes/views.py): the annotated listing query of NoteViewSet, the       *)
(* download counter, the like / bookmark toggles, the staff-only note      *)
(* update and the one-per-user rating / comment creation.                  *)
(*                                                                         *)
(* The database is the state: one function for the Note table and one set  *)
(* of rows per join table.  Rows carry their primary key, so a table can   *)
(* hold two rows of the same (user, note) pair unless something prevents   *)
(* it.  Spec runs every request handler as one step (one request at a      *)
(* time); SpecConc runs the handlers of concurrent requests query by       *)
(* query.                                                                  *)
(***************************************************************************)
EXTENDS Integers, FiniteSets, Sequences, TLC

\* ------------------------------------------------------------- bounds
\* MaxWork bounds the requests that change the database in one behaviour of
\* Spec (requests that only read, or fail, are not counted); MaxConcWork
\* bounds the notes created plus the requests started in one behaviour of
\* SpecConc.
MaxWork == 3
MaxConcWork == 3

\* ------------------------------------------------------------- users
Users == {"alice", "admin"}
StaffUsers == {"admin"}
Anonymous == "anonymous"
Viewers == Users \cup {Anonymous}
Titles == {"t0", "t1"}

is_authenticated(user) == user \in Users
is_staff(user) == user \in StaffUsers

VARIABLES
    notes,    \* Note table: pk -> [uploader, is_approved, download_count, title]
    db,       \* join tables: likes, bookmarks, star_ratings, comments,
              \* each a set of rows [id, user, note]
    seq,      \* next primary key of each table
    reqs,     \* requests in flight: slot -> the handler's position and locals
    served,   \* pk -> number of download requests answered 200 (history)
    work,     \* number of requests counted against the bound (history)
    before,   \* the join tables before the last request (history)
    resp      \* the response of the last request that completed

vars == <<notes, db, seq, reqs, served, work, before, resp>>

likes == db.likes
bookmarks == db.bookmarks
star_ratings == db.star_ratings
comments == db.comments

Relations == {"likes", "bookmarks", "star_ratings", "comments"}
NotePks == DOMAIN notes
NullRow == [id |-> 0, user |-> "NULL", note |-> 0]

\* The pks a request may name: every note, and one pk that names none.
RequestPks == NotePks \cup {seq.note}

\* A response: the action and its caller, the HTTP status, and the body's
\* fields (flag: liked / bookmarked; count: likes_count / bookmarks_count /
\* download_count; rows: the serialized queryset rows).
Response(action, user, pk, status, flag, count, rows) ==
    [action |-> action, user |-> user, pk |-> pk, status |-> status,
     flag |-> flag, count |-> count, rows |-> rows]
Failure(action, user, pk, status) ==
    Response(action, user, pk, status, FALSE, 0, {})
NoResponse == Failure("none", Anonymous, 0, 0)

IdleReq == [pc |-> "idle", action |-> "none", rel |-> "none", user |-> Anonymous,
            pk |-> 0, inst |-> 0, flag |-> FALSE, loaded |-> 0]
AllIdle == \A s \in DOMAIN reqs : reqs[s].pc = "idle"

\* ------------------------------------------------------------- queries
RowsOf(table, n) == {r \in table : r.note = n}
Pairs(table) == {<<r.user, r.note>> : r \in table}

\* LEFT OUTER JOIN of a note with a reverse relation: its rows, or one
\* all-NULL row when it has none.
LeftJoin(table, n) == IF RowsOf(table, n) = {} THEN {NullRow} ELSE RowsOf(table, n)

\* Case(When(likes__user=user, then=True), default=False) evaluated on one
\* joined row for an authenticated viewer; Value(False) for an anonymous one.
user_specific_annotation(user, row) ==
    IF is_authenticated(user) THEN row.id # 0 /\ row.user = user ELSE FALSE

\* The annotated queryset rows of note n.  The query joins likes and
\* bookmarks (and star_ratings, which only repeats join rows and changes
\* neither the groups nor the distinct counts) and carries aggregates, so
\* it is grouped by the note and by every non-aggregate annotation: the two
\* per-viewer flags.  One result row per non-empty group; Count(distinct)
\* counts the join rows of that group.
annotate(user, n) ==
    LET L == LeftJoin(likes, n)
        B == LeftJoin(bookmarks, n)
        groups == {g \in BOOLEAN \X BOOLEAN :
                     /\ \E l \in L : user_specific_annotation(user, l) = g[1]
                     /\ \E b \in B : user_specific_annotation(user, b) = g[2]}
    IN  {[pk |-> n,
          likes_count |-> Cardinality({l \in L : l.id # 0
                              /\ user_specific_annotation(user, l) = g[1]}),
          bookmarks_count |-> Cardinality({b \in B : b.id # 0
                              /\ user_specific_annotation(user, b) = g[2]}),
          liked |-> g[1],
          bookmarked |-> g[2]] : g \in groups}

approval_filter_own(user, action, pks) ==
    IF action \in {"list", "retrieve"} /\ (~is_authenticated(user) \/ ~is_staff(user))
    THEN {n \in pks : notes[n].is_approved \/ notes[n].uploader = user}
    ELSE pks

\* if self.action in ['list', 'retrieve']: hide unapproved notes from
\* everyone but staff.
approval_filter(user, action, pks) ==
    IF action \in {"list", "retrieve"} /\ (~is_authenticated(user) \/ ~is_staff(user))
    THEN {n \in pks : notes[n].is_approved}
    ELSE pks

\* NoteViewSet.get_queryset: the result rows (their order, -created_at, is
\* left out: a set of rows).
get_queryset(user, action) ==
    UNION {annotate(user, n) : n \in approval_filter(user, action, NotePks)}

\* The queryset of my_uploaded_notes: the same annotations over the
\* caller's own notes, with no approval filter.
my_uploaded_notes_queryset(user) ==
    UNION {annotate(user, n) : n \in {m \in NotePks : notes[m].uploader = user}}

\* self.get_object(): queryset.get(pk=pk) through get_object_or_404, which
\* turns DoesNotExist into Http404 and lets MultipleObjectsReturned pass.
get_object(user, action, pk) ==
    LET found == {r \in get_queryset(user, action) : r.pk = pk}
    IN  IF found = {} THEN "Http404"
        ELSE IF Cardinality(found) > 1 THEN "MultipleObjectsReturned"
        ELSE "ok"

\* get_object_or_404(Note, pk=note_id): the plain Note manager.
get_object_or_404(pk) == IF pk \in NotePks THEN "ok" ELSE "Http404"

\* Model.objects.filter(user=user, note=note).first(): the pk of the first
\* matching row (ordered by pk), 0 for None.
first(table, user, n) ==
    LET m == {r \in table : r.user = user /\ r.note = n}
    IN  IF m = {} THEN 0
        ELSE (CHOOSE r \in m : \A q \in m : r.id <= q.id).id

delete_nothing(table, id) == table

\* instance.delete(): DELETE ... WHERE id = pk.
delete(table, id) == {r \in table : r.id # id}

no_constraint(table, user, n) == TRUE

\* The (user, note) uniqueness constraint of the join tables: the INSERT
\* of a second row of a pair raises IntegrityError.
unique_together(table, user, n) ==
    \A r \in table : ~(r.user = user /\ r.note = n)

NewRow_for_uploader(rel, user, n) ==
    [id |-> seq[rel], user |-> notes[n].uploader, note |-> n]

\* Model.objects.create(user=user, note=note) / serializer.save(...)
NewRow(rel, user, n) == [id |-> seq[rel], user |-> user, note |-> n]

\* note.likes.count() / note.bookmarks.count()
count(table, n) == Cardinality(RowsOf(table, n))

update_every_note(pk, loaded) ==
    [n \in DOMAIN notes |-> [notes[n] EXCEPT !.download_count = @ + 1]]

read_modify_write_save(pk, loaded) ==
    [notes EXCEPT ![pk].download_count = loaded + 1]

\* note.download_count = F('download_count') + 1; save(update_fields):
\* UPDATE ... SET download_count = download_count + 1 WHERE id = pk,
\* evaluated by the database on the stored value, whatever value the
\* handler loaded.
f_expression_save(pk, loaded) ==
    [notes EXCEPT ![pk].download_count = @ + 1]

ToggleAction(rel) == IF rel = "likes" THEN "toggle_like" ELSE "toggle_bookmark"
CreateAction(rel) == IF rel = "star_ratings" THEN "create_rating" ELSE "create_comment"

\* IsOwnerOrReadOnly.has_object_permission for an unsafe method: the
\* owner-or-staff check.
IsOwnerOrReadOnly(user, pk) == user = notes[pk].uploader \/ is_staff(user)

no_update_check(user, pk) == TRUE

\* perform_update: if user == instance.uploader and not user.is_staff:
\* raise PermissionDenied.
perform_update_allowed(user, pk) ==
    ~(user = notes[pk].uploader /\ ~is_staff(user))

\* ------------------------------------------------------------- Init
Init ==
    /\ notes = << >>
    /\ db = [r \in Relations |-> {}]
    /\ seq = [t \in Relations \cup {"note"} |-> 1]
    /\ reqs = [s \in 1..MaxConcWork |-> IdleReq]
    /\ served = << >>
    /\ work = 0
    /\ before = [r \in Relations |-> {}]
    /\ resp = NoResponse

\* ------------------------------------------------------------- handlers
\* Every handler of Spec runs from the request to its response in one step.
\* get_permissions: list and retrieve are open to everyone (AllowAny); the
\* other actions need an authenticated caller (IsAuthenticated), and a
\* request without one is rejected before the handler and changes nothing.

\* NoteViewSet.create / perform_create: serializer.save(uploader=user); the
\* note waits for admin approval.
create(user, bound) ==
    /\ is_authenticated(user)
    /\ work < bound
    /\ work' = work + 1
    /\ notes' = notes @@ (seq.note :>
            [uploader |-> user, is_approved |-> FALSE,
             download_count |-> 0, title |-> "t0"])
    /\ served' = served @@ (seq.note :> 0)
    /\ seq' = [seq EXCEPT !.note = @ + 1]
    /\ before' = db
    /\ resp' = Response("create", user, seq.note, 201, FALSE, 0, {})
    /\ UNCHANGED <<db, reqs>>

\* NoteAdmin: is_approved is an editable field of the admin form;
\* download_count is read-only there.
admin_set_approved(pk, value) ==
    /\ pk \in NotePks
    /\ notes[pk].is_approved # value
    /\ work < MaxWork
    /\ work' = work + 1
    /\ notes' = [notes EXCEPT ![pk].is_approved = value]
    /\ before' = db
    /\ resp' = Response("admin", "admin", pk, 200, value, 0, {})
    /\ UNCHANGED <<db, seq, reqs, served>>

\* GET /notes/
list(user) ==
    /\ before' = db
    /\ resp' = Response("list", user, 0, 200, FALSE, 0, get_queryset(user, "list"))
    /\ UNCHANGED <<notes, db, seq, reqs, served, work>>

\* GET /notes/{pk}/
retrieve(user, pk) ==
    /\ before' = db
    /\ LET obj == get_object(user, "retrieve", pk)
       IN  resp' = IF obj = "Http404" THEN Failure("retrieve", user, pk, 404)
                   ELSE IF obj = "MultipleObjectsReturned"
                   THEN Failure("retrieve", user, pk, 500)
                   ELSE Response("retrieve", user, pk, 200, FALSE, 0,
                            {r \in get_queryset(user, "retrieve") : r.pk = pk})
    /\ UNCHANGED <<notes, db, seq, reqs, served, work>>

\* GET /notes/my-notes/
my_uploaded_notes(user) ==
    /\ is_authenticated(user)
    /\ before' = db
    /\ resp' = Response("my_uploaded_notes", user, 0, 200, FALSE, 0,
                   my_uploaded_notes_queryset(user))
    /\ UNCHANGED <<notes, db, seq, reqs, served, work>>

\* GET /notes/{pk}/download/
download(user, pk) ==
    /\ is_authenticated(user)
    /\ before' = db
    /\ LET obj == get_object(user, "download", pk)
       IN  IF obj = "Http404"
           THEN /\ resp' = Failure("download", user, pk, 404)
                /\ UNCHANGED <<notes, served, work>>
           ELSE IF obj = "MultipleObjectsReturned"
           THEN /\ resp' = Failure("download", user, pk, 500)
                /\ UNCHANGED <<notes, served, work>>
           ELSE /\ work < MaxWork
                /\ work' = work + 1
                /\ notes' = f_expression_save(pk, notes[pk].download_count)
                /\ served' = [served EXCEPT ![pk] = @ + 1]
                /\ resp' = Response("download", user, pk, 200, FALSE,
                                notes'[pk].download_count, {})
    /\ UNCHANGED <<db, seq, reqs>>

\* POST /notes/{pk}/toggle_like/ and /toggle_bookmark/ (rel: likes or
\* bookmarks).  get_object raises Http404 (not Note.DoesNotExist) or
\* MultipleObjectsReturned; both reach the handler's "except Exception" and
\* are answered 500, as is the IntegrityError of a refused INSERT.
toggle(rel, user, pk) ==
    /\ is_authenticated(user)
    /\ before' = db
    /\ LET obj == get_object(user, ToggleAction(rel), pk)
           instance == first(db[rel], user, pk)
       IN  IF obj # "ok"
           THEN /\ resp' = Failure(ToggleAction(rel), user, pk, 500)
                /\ UNCHANGED <<db, seq, work>>
           ELSE IF instance # 0
           THEN /\ work < MaxWork
                /\ work' = work + 1
                /\ db' = [db EXCEPT ![rel] = delete(@, instance)]
                /\ resp' = Response(ToggleAction(rel), user, pk, 200, FALSE,
                                count(db'[rel], pk), {})
                /\ UNCHANGED seq
           ELSE IF ~unique_together(db[rel], user, pk)
           THEN /\ resp' = Failure(ToggleAction(rel), user, pk, 500)
                /\ UNCHANGED <<db, seq, work>>
           ELSE /\ work < MaxWork
                /\ work' = work + 1
                /\ db' = [db EXCEPT ![rel] = @ \cup {NewRow(rel, user, pk)}]
                /\ seq' = [seq EXCEPT ![rel] = @ + 1]
                /\ resp' = Response(ToggleAction(rel), user, pk, 200, TRUE,
                                count(db'[rel], pk), {})
    /\ UNCHANGED <<notes, reqs, served>>

toggle_like(user, pk) == toggle("likes", user, pk)
toggle_bookmark(user, pk) == toggle("bookmarks", user, pk)

\* POST /ratings/ and /comments/ (rel: star_ratings or comments):
\* perform_create.  pk = 0 is a request without a note reference.
perform_create(rel, user, pk) ==
    /\ is_authenticated(user)
    /\ before' = db
    /\ IF pk = 0
       THEN /\ resp' = Failure(CreateAction(rel), user, pk, 400)
            /\ UNCHANGED <<db, seq, work>>
       ELSE IF get_object_or_404(pk) # "ok"
       THEN /\ resp' = Failure(CreateAction(rel), user, pk, 404)
            /\ UNCHANGED <<db, seq, work>>
       ELSE IF first(db[rel], user, pk) # 0
       THEN /\ resp' = Failure(CreateAction(rel), user, pk, 400)
            /\ UNCHANGED <<db, seq, work>>
       ELSE IF ~unique_together(db[rel], user, pk)
       THEN /\ resp' = Failure(CreateAction(rel), user, pk, 500)
            /\ UNCHANGED <<db, seq, work>>
       ELSE /\ work < MaxWork
            /\ work' = work + 1
            /\ db' = [db EXCEPT ![rel] = @ \cup {NewRow(rel, user, pk)}]
            /\ seq' = [seq EXCEPT ![rel] = @ + 1]
            /\ resp' = Response(CreateAction(rel), user, pk, 201, FALSE, 0, {})
    /\ UNCHANGED <<notes, reqs, served>>

create_rating(user, pk) == perform_create("star_ratings", user, pk)
create_comment(user, pk) == perform_create("comments", user, pk)

\* PUT / PATCH /notes/{pk}/: UpdateModelMixin.update (get_object and the
\* object permission), then perform_update.
update(user, pk, title) ==
    /\ is_authenticated(user)
    /\ before' = db
    /\ LET obj == get_object(user, "update", pk)
       IN  IF obj = "Http404"
           THEN /\ resp' = Failure("update", user, pk, 404)
                /\ UNCHANGED <<notes, work>>
           ELSE IF obj = "MultipleObjectsReturned"
           THEN /\ resp' = Failure("update", user, pk, 500)
                /\ UNCHANGED <<notes, work>>
           ELSE IF ~IsOwnerOrReadOnly(user, pk) \/ ~perform_update_allowed(user, pk)
           THEN /\ resp' = Failure("update", user, pk, 403)
                /\ UNCHANGED <<notes, work>>
           ELSE /\ work < MaxWork
                /\ work' = work + 1
                /\ notes' = [notes EXCEPT ![pk].title = title]
                /\ resp' = Response("update", user, pk, 200, FALSE, 0, {})
    /\ UNCHANGED <<db, seq, reqs, served>>

Next ==
    \/ \E user \in Viewers : create(user, MaxWork)
    \/ \E pk \in NotePks, value \in BOOLEAN : admin_set_approved(pk, value)
    \/ \E user \in Viewers : list(user)
    \/ \E user \in Viewers, pk \in RequestPks : retrieve(user, pk)
    \/ \E user \in Viewers : my_uploaded_notes(user)
    \/ \E user \in Viewers, pk \in RequestPks : download(user, pk)
    \/ \E user \in Viewers, pk \in RequestPks : toggle_like(user, pk)
    \/ \E user \in Viewers, pk \in RequestPks : toggle_bookmark(user, pk)
    \/ \E user \in Viewers, pk \in RequestPks \cup {0} : create_rating(user, pk)
    \/ \E user \in Viewers, pk \in RequestPks \cup {0} : create_comment(user, pk)
    \/ \E user \in Viewers, pk \in RequestPks, title \in Titles : update(user, pk, title)

Spec == Init /\ [][Next]_vars

\* ------------------------------------------------------------- concurrent requests
\* SpecConc: the handlers of requests in flight, one database query per
\* step.  A request takes the lowest free slot and gives it back with its
\* response.
FreeSlot == CHOOSE s \in DOMAIN reqs :
               /\ reqs[s].pc = "idle"
               /\ \A t \in DOMAIN reqs : reqs[t].pc = "idle" => s <= t
Request(action, rel, user, pk, loaded) ==
    [pc |-> "got", action |-> action, rel |-> rel, user |-> user, pk |-> pk,
     inst |-> 0, flag |-> FALSE, loaded |-> loaded]
Finish(s, response) ==
    /\ reqs' = [reqs EXCEPT ![s] = IdleReq]
    /\ resp' = response

\* download: note = self.get_object()
download_load(user, pk) ==
    /\ is_authenticated(user)
    /\ work < MaxConcWork
    /\ work' = work + 1
    /\ LET obj == get_object(user, "download", pk)
       IN  IF obj = "ok"
           THEN /\ reqs' = [reqs EXCEPT ![FreeSlot] =
                      Request("download", "none", user, pk, notes[pk].download_count)]
                /\ UNCHANGED resp
           ELSE /\ resp' = Failure("download", user, pk,
                               IF obj = "Http404" THEN 404 ELSE 500)
                /\ UNCHANGED reqs
    /\ UNCHANGED <<notes, db, seq, served, before>>

\* download: note.download_count = F('download_count') + 1; note.save(...)
download_save(s) ==
    /\ reqs[s].pc = "got" /\ reqs[s].action = "download"
    /\ notes' = f_expression_save(reqs[s].pk, reqs[s].loaded)
    /\ reqs' = [reqs EXCEPT ![s].pc = "saved"]
    /\ UNCHANGED <<db, seq, served, work, before, resp>>

\* download: note.refresh_from_db() and the response
download_refresh(s) ==
    /\ reqs[s].pc = "saved" /\ reqs[s].action = "download"
    /\ served' = [served EXCEPT ![reqs[s].pk] = @ + 1]
    /\ Finish(s, Response("download", reqs[s].user, reqs[s].pk, 200, FALSE,
                     notes[reqs[s].pk].download_count, {}))
    /\ UNCHANGED <<notes, db, seq, work, before>>

\* toggle_like / toggle_bookmark: note = self.get_object()
toggle_get_object(rel, user, pk) ==
    /\ is_authenticated(user)
    /\ work < MaxConcWork
    /\ work' = work + 1
    /\ IF get_object(user, ToggleAction(rel), pk) = "ok"
       THEN /\ reqs' = [reqs EXCEPT ![FreeSlot] =
                  Request(ToggleAction(rel), rel, user, pk, 0)]
            /\ UNCHANGED resp
       ELSE /\ resp' = Failure(ToggleAction(rel), user, pk, 500)
            /\ UNCHANGED reqs
    /\ UNCHANGED <<notes, db, seq, served, before>>

\* toggle: like_instance = Like.objects.filter(user=user, note=note).first()
toggle_filter(s) ==
    /\ reqs[s].pc = "got" /\ reqs[s].rel \in {"likes", "bookmarks"}
    /\ reqs' = [reqs EXCEPT ![s].pc = "checked",
                            ![s].inst = first(db[reqs[s].rel], reqs[s].user, reqs[s].pk)]
    /\ UNCHANGED <<notes, db, seq, served, work, before, resp>>

\* toggle: like_instance.delete(), or Like.objects.create(...)
toggle_write(s) ==
    /\ reqs[s].pc = "checked" /\ reqs[s].rel \in {"likes", "bookmarks"}
    /\ LET r == reqs[s]
       IN  IF r.inst # 0
           THEN /\ db' = [db EXCEPT ![r.rel] = delete(@, r.inst)]
                /\ reqs' = [reqs EXCEPT ![s].pc = "written", ![s].flag = FALSE]
                /\ UNCHANGED <<seq, resp>>
           ELSE IF unique_together(db[r.rel], r.user, r.pk)
           THEN /\ db' = [db EXCEPT ![r.rel] = @ \cup {NewRow(r.rel, r.user, r.pk)}]
                /\ seq' = [seq EXCEPT ![r.rel] = @ + 1]
                /\ reqs' = [reqs EXCEPT ![s].pc = "written", ![s].flag = TRUE]
                /\ UNCHANGED resp
           ELSE /\ Finish(s, Failure(r.action, r.user, r.pk, 500))
                /\ UNCHANGED <<db, seq>>
    /\ UNCHANGED <<notes, served, work, before>>

\* toggle: likes_count = note.likes.count() and the response
toggle_count(s) ==
    /\ reqs[s].pc = "written" /\ reqs[s].rel \in {"likes", "bookmarks"}
    /\ Finish(s, Response(reqs[s].action, reqs[s].user, reqs[s].pk, 200,
                     reqs[s].flag, count(db[reqs[s].rel], reqs[s].pk), {}))
    /\ UNCHANGED <<notes, db, seq, served, work, before>>

\* perform_create: note_instance = get_object_or_404(Note, pk=...)
create_get_note(rel, user, pk) ==
    /\ is_authenticated(user)
    /\ work < MaxConcWork
    /\ work' = work + 1
    /\ IF pk = 0
       THEN /\ resp' = Failure(CreateAction(rel), user, pk, 400)
            /\ UNCHANGED reqs
       ELSE IF get_object_or_404(pk) # "ok"
       THEN /\ resp' = Failure(CreateAction(rel), user, pk, 404)
            /\ UNCHANGED reqs
       ELSE /\ reqs' = [reqs EXCEPT ![FreeSlot] =
                  Request(CreateAction(rel), rel, user, pk, 0)]
            /\ UNCHANGED resp
    /\ UNCHANGED <<notes, db, seq, served, before>>

\* perform_create: existing = Model.objects.filter(note=..., user=...).first();
\* if existing: raise ValidationError
create_check(s) ==
    /\ reqs[s].pc = "got" /\ reqs[s].rel \in {"star_ratings", "comments"}
    /\ LET r == reqs[s]
       IN  IF first(db[r.rel], r.user, r.pk) # 0
           THEN Finish(s, Failure(r.action, r.user, r.pk, 400))
           ELSE /\ reqs' = [reqs EXCEPT ![s].pc = "checked"]
                /\ UNCHANGED resp
    /\ UNCHANGED <<notes, db, seq, served, work, before>>

\* perform_create: serializer.save(user=..., note=note_instance)
create_save(s) ==
    /\ reqs[s].pc = "checked" /\ reqs[s].rel \in {"star_ratings", "comments"}
    /\ LET r == reqs[s]
       IN  IF unique_together(db[r.rel], r.user, r.pk)
           THEN /\ db' = [db EXCEPT ![r.rel] = @ \cup {NewRow(r.rel, r.user, r.pk)}]
                /\ seq' = [seq EXCEPT ![r.rel] = @ + 1]
                /\ Finish(s, Response(r.action, r.user, r.pk, 201, FALSE, 0, {}))
           ELSE /\ Finish(s, Failure(r.action, r.user, r.pk, 500))
                /\ UNCHANGED <<db, seq>>
    /\ UNCHANGED <<notes, served, work, before>>

NextConc ==
    \/ \E user \in Viewers : AllIdle /\ create(user, MaxConcWork)
    \/ \E user \in Viewers, pk \in RequestPks : download_load(user, pk)
    \/ \E s \in DOMAIN reqs : download_save(s)
    \/ \E s \in DOMAIN reqs : download_refresh(s)
    \/ \E rel \in {"likes", "bookmarks"}, user \in Viewers, pk \in RequestPks :
           toggle_get_object(rel, user, pk)
    \/ \E s \in DOMAIN reqs : toggle_filter(s)
    \/ \E s \in DOMAIN reqs : toggle_write(s)
    \/ \E s \in DOMAIN reqs : toggle_count(s)
    \/ \E rel \in {"star_ratings", "comments"}, user \in Viewers,
          pk \in RequestPks \cup {0} : create_get_note(rel, user, pk)
    \/ \E s \in DOMAIN reqs : create_check(s)
    \/ \E s \in DOMAIN reqs : create_save(s)

SpecConc == Init /\ [][NextConc]_vars

\* ------------------------------------------------------------- properties
AtMostOnePerPair(table) ==
    \A r1 \in table, r2 \in table :
        (r1.user = r2.user /\ r1.note = r2.note) => r1 = r2

\* C1: whatever notes were created, approved and engaged with, the rows a
\* list or retrieve returns to an anonymous or non-staff viewer are rows of
\* approved notes only, the viewer's own unapproved uploads included.
C1_OnlyApprovedListed ==
    /\ \A viewer \in Viewers : ~is_staff(viewer) =>
          \A r \in get_queryset(viewer, "list") \cup get_queryset(viewer, "retrieve") :
              notes[r.pk].is_approved
    /\ (resp.action \in {"list", "retrieve"} /\ resp.status = 200 /\ ~is_staff(resp.user))
          => \A r \in resp.rows : notes[r.pk].is_approved

\* A non-staff uploader has listed the notes: an approved note is in the
\* result while an unapproved note of the viewer's own exists.
C1_Witness ==
    /\ resp.action = "list" /\ resp.user = "alice" /\ resp.rows # {}
    /\ \E n \in NotePks : notes[n].uploader = "alice" /\ ~notes[n].is_approved

\* C2 (as claimed): when u has not liked note n, two consecutive toggle_like
\* calls by u on n answer liked=true and then liked=false, leave the Like
\* rows as they were before the first call, and the second call's count is
\* the count before the first call.  The step constrained is the second
\* call: resp is the first call's response and before the tables before it.
C2_ToggleLikeTwice ==
    [][(/\ resp.action = "toggle_like"
        /\ resp.pk \in NotePks
        /\ <<resp.user, resp.pk>> \notin Pairs(before.likes)
        /\ resp'.action = "toggle_like"
        /\ resp'.user = resp.user
        /\ resp'.pk = resp.pk)
       => (/\ resp.status = 200 /\ resp.flag = TRUE
           /\ resp'.status = 200 /\ resp'.flag = FALSE
           /\ Pairs(likes') = Pairs(before.likes)
           /\ resp'.count = count(before.likes, resp.pk))]_vars

\* C3 (as claimed): at most one StarRating and one Comment row per (user,
\* note) in every state, and a create request that meets a row of its user
\* and note is answered with the validation error (400), however the
\* existence checks and saves of concurrent requests interleave.
C3_OneRatingOneComment ==
    /\ AtMostOnePerPair(star_ratings)
    /\ AtMostOnePerPair(comments)
    /\ \A rel \in {"star_ratings", "comments"} :
          (/\ resp.action = CreateAction(rel)
           /\ resp.status # 201
           /\ <<resp.user, resp.pk>> \in Pairs(db[rel]))
          => resp.status = 400

C5_DownloadCountStep ==
    [][/\ \A n \in DOMAIN notes :
             notes'[n].download_count >= notes[n].download_count
       /\ (resp'.action = "download" /\ resp'.status = 200)
             => /\ notes'[resp'.pk].download_count
                      = notes[resp'.pk].download_count + 1
                /\ \A n \in DOMAIN notes : n # resp'.pk =>
                      notes'[n].download_count = notes[n].download_count]_vars

\* A download of one of two notes has been answered with the new count.
C5_Witness ==
    /\ resp.action = "download" /\ resp.status = 200
    /\ resp.count = 1 /\ notes[resp.pk].download_count = 1
    /\ \E n \in NotePks : n # resp.pk /\ notes[n].download_count = 0

\* C6: no increment is lost: in every state a note's download_count is the
\* number of its downloads answered plus the number of its downloads that
\* have written and not yet answered; with no request in flight it is the
\* number of downloads answered, whatever the interleaving.
InFlightSaved(n) ==
    Cardinality({s \in DOMAIN reqs : reqs[s].action = "download"
                    /\ reqs[s].pk = n /\ reqs[s].pc = "saved"})
C6_NoLostDownload ==
    \A n \in NotePks : notes[n].download_count = served[n] + InFlightSaved(n)

\* Two downloads of one note loaded it before either wrote, and both have
\* written.
C6_Witness ==
    \E s1 \in DOMAIN reqs, s2 \in DOMAIN reqs :
        /\ s1 # s2
        /\ reqs[s1].action = "download" /\ reqs[s2].action = "download"
        /\ reqs[s1].pk = reqs[s2].pk
        /\ reqs[s1].pc = "saved" /\ reqs[s2].pc = "saved"
        /\ reqs[s1].loaded = 0 /\ reqs[s2].loaded = 0
        /\ notes[reqs[s1].pk].download_count = 2

\* C7 (as claimed): an update by a non-staff user who is the note's
\* uploader is answered PermissionDenied (403) and changes no stored field
\* of a note, and a step that changes a note's title is an update by a
\* staff user.
C7_StaffOnlyEdit ==
    [][(resp'.action = "update" /\ resp'.pk \in DOMAIN notes)
       => /\ (resp'.user = notes[resp'.pk].uploader /\ ~is_staff(resp'.user))
                => (resp'.status = 403 /\ notes' = notes)
          /\ (notes' # notes) => is_staff(resp'.user)]_vars

\* C8 (as claimed): a toggle_like or toggle_bookmark on a pk that names no
\* note is answered 404 and leaves the join tables as they were.
C8_ToggleNotFound ==
    (resp.action \in {"toggle_like", "toggle_bookmark"} /\ resp.pk \notin NotePks)
        => (resp.status = 404 /\ db = before)

C10_ListingAnnotations ==
    (resp.action \in {"list", "my_uploaded_notes"} /\ resp.status = 200)
    => \A r \in resp.rows :
          /\ r.likes_count = Cardinality({l \in likes : l.note = r.pk})
          /\ r.bookmarks_count = Cardinality({b \in bookmarks : b.note = r.pk})
          /\ r.liked = (is_authenticated(resp.user)
                          /\ <<resp.user, r.pk>> \in Pairs(likes))
          /\ r.bookmarked = (is_authenticated(resp.user)
                          /\ <<resp.user, r.pk>> \in Pairs(bookmarks))

\* C11 (as claimed): a download, toggle_like or toggle_bookmark request of
\* an authenticated non-staff user on an existing note that is not approved
\* is answered 200 and changes the note's download_count (download) or the
\* caller's Like / Bookmark row (toggles), while the note is in neither the
\* list nor the retrieve queryset of that user.
C11_UnapprovedStillActedOn ==
    [][(/\ resp'.action \in {"download", "toggle_like", "toggle_bookmark"}
        /\ is_authenticated(resp'.user) /\ ~is_staff(resp'.user)
        /\ resp'.pk \in DOMAIN notes
        /\ ~notes[resp'.pk].is_approved)
       => (/\ resp'.status = 200
           /\ (resp'.action = "download") =>
                 notes'[resp'.pk].download_count
                     = notes[resp'.pk].download_count + 1
           /\ (resp'.action = "toggle_like") =>
                 (<<resp'.user, resp'.pk>> \in Pairs(likes'))
                     # (<<resp'.user, resp'.pk>> \in Pairs(likes))
           /\ (resp'.action = "toggle_bookmark") =>
                 (<<resp'.user, resp'.pk>> \in Pairs(bookmarks'))
                     # (<<resp'.user, resp'.pk>> \in Pairs(bookmarks))
           /\ \A r \in get_queryset(resp'.user, "list")
                         \cup get_queryset(resp'.user, "retrieve") :
                 r.pk # resp'.pk)]_vars

\* The rows of a join table that are not rows of the pair (user, pk).
OtherRows(table, user, pk) == {r \in table : ~(r.user = user /\ r.note = pk)}

\* C12: a toggle_like (toggle_bookmark) request of user u on note n leaves
\* every Like (Bookmark) row that is not a row of (u, n) as it was, leaves
\* the other three join tables as they were, and leaves the Note table -
\* every note's download_count and is_approved - as it was; and a step that
\* changes a note's download_count is a download.
C12_ToggleFrame ==
    [][/\ \A rel \in {"likes", "bookmarks"} :
             (resp'.action = ToggleAction(rel))
             => /\ OtherRows(db'[rel], resp'.user, resp'.pk)
                      = OtherRows(db[rel], resp'.user, resp'.pk)
                /\ \A other \in Relations \ {rel} : db'[other] = db[other]
                /\ DOMAIN notes' = DOMAIN notes
                /\ \A n \in DOMAIN notes :
                      /\ notes'[n].download_count = notes[n].download_count
                      /\ notes'[n].is_approved = notes[n].is_approved
       /\ \A n \in DOMAIN notes :
             (notes'[n].download_count # notes[n].download_count)
             => resp'.action = "download"]_vars

\* A toggle_like has created the caller's row on a note that carries a Like
\* row of another user, and that row is still there.
C12_Witness ==
    /\ resp.action = "toggle_like" /\ resp.status = 200 /\ resp.flag = TRUE
    /\ <<resp.user, resp.pk>> \in Pairs(likes)
    /\ <<resp.user, resp.pk>> \notin Pairs(before.likes)
    /\ OtherRows(likes, resp.user, resp.pk) # {}
    /\ OtherRows(likes, resp.user, resp.pk) = before.likes

====
